---- MODULE Spec2Model ----
(***************************************************************************)
(* Model of Deskpass/gologger (logger.go): the Logger facade built by      *)
(* ConfigureLogger and its four logging methods, which all funnel into     *)
(* commonLog.  The process environment (LOG_LEVEL, REMOTE_LOG_ONLY), the    *)
(* process-wide zerolog level and every Logger variable the caller holds    *)
(* are the state; what an operation wrote (records on the local and remote  *)
(* sinks, console lines, a dial) is kept for the most recent operation.     *)
(***************************************************************************)
EXTENDS Integers, Sequences, FiniteSets, TLC

\* Number of Logger variables the calling program holds.
MaxLoggers == 2

LoggerIds == 1 .. MaxLoggers

-----------------------------------------------------------------------------
(* Values *)

\* logger.go:25-30.  The numbers are zerolog's Level constants.
validLogLevels == [debug |-> 0, info |-> 1, warn |-> 2, error |-> 3]

LevelNames == DOMAIN validLogLevels

\* Keys of localLoggerFns / remoteLoggerFns (logger.go:133-142).
FnNames == {"Debug", "Info", "Warn"}

\* The absent error value.
NilErr == "nil"

\* map[string]interface{} values: the nil map, the empty map, a map with entries.
NilMap == [isNil |-> TRUE, entries |-> {}]
EmptyMap == [isNil |-> FALSE, entries |-> {}]
OneMap == [isNil |-> FALSE, entries |-> {<<"testKey", "testString">>}]

\* *map[string]interface{} values.
NilPtr == [null |-> TRUE, target |-> NilMap]

\* &meta: the address of the callee's own parameter variable (logger.go:35).
AddrOf(meta) == [null |-> FALSE, target |-> meta]

\* *zerolog.Logger values.
NilLogger == [present |-> FALSE, app |-> "", console |-> FALSE, out |-> ""]

\* func() *zerolog.Event values.
NilFn == [null |-> TRUE, sink |-> "", level |-> ""]

\* A Logger variable that has not been assigned yet.
NoLogger ==
    [built |-> FALSE,
     localLogger |-> NilLogger,
     remoteLogger |-> NilLogger,
     localLoggerFns |-> [n \in FnNames |-> NilFn],
     remoteLoggerFns |-> [n \in FnNames |-> NilFn]]

NoArgs == [url |-> "", dialFailed |-> FALSE, logLevel |-> ""]

-----------------------------------------------------------------------------
(* Inputs *)

AppNames == {"svc"}
Messages == {<<"hello">>}
Metas == {NilMap, EmptyMap, OneMap}
Errs == {NilErr, "test error"}
Environments == {"development", "production", ""}
RemoteURLs == {"", "logs.example.com:514"}
DialErrs == {NilErr, "dial udp: no such host"}
LogLevelValues == LevelNames \cup {"", "verbose"}
RemoteLogOnlyValues == {"", "1"}

-----------------------------------------------------------------------------
VARIABLES
    env,        \* process environment: LOG_LEVEL, REMOTE_LOG_ONLY
    gLevel,     \* zerolog's process-wide level (zerolog.SetGlobalLevel)
    loggers,    \* the Logger values held by the caller
    args,       \* per Logger: the arguments and outcome of the call that built it
    resolved,   \* level resolved by the most recent ConfigureLogger call
    last,       \* the most recent operation and what it wrote
    panicked    \* a nil function value was called

vars == <<env, gLevel, loggers, args, resolved, last, panicked>>

NoOp ==
    [op |-> "none", id |-> 0, level |-> "", message |-> <<>>, err |-> NilErr,
     meta |-> NilMap, flag |-> "", environment |-> "", url |-> "",
     dialErr |-> NilErr, events |-> <<>>, console |-> <<>>, dialed |-> FALSE]

-----------------------------------------------------------------------------
(* zerolog, as logger.go uses it *)

\* A record started on logger lg at level lvl; it is written by Msg only if
\* the level passes the process-wide level gl.
NewEvent(sink, lg, lvl, gl) ==
    [sink |-> sink, level |-> lvl, app |-> lg.app, console |-> lg.console,
     out |-> lg.out, enabled |-> validLogLevels[lvl] >= validLogLevels[gl],
     error |-> NilErr, hasMeta |-> FALSE, meta |-> {}, message |-> <<>>]

\* (*zerolog.Logger).Err(err), called at logger.go:60, 79 and 169.  zerolog
\* v1.32.0 (go.mod): "Err starts a new message with error level with err as a
\* field if not nil or with info level if err is nil."
LoggerErr(sink, lg, err, gl) ==
    IF err # NilErr
    THEN [NewEvent(sink, lg, "error", gl) EXCEPT !.error = err]
    ELSE NewEvent(sink, lg, "info", gl)

\* (*zerolog.Event).Dict(key, dict)
Dict(ev, dict) == [ev EXCEPT !.hasMeta = TRUE, !.meta = dict]

\* (*zerolog.Event).Msg(message)
Msg(ev, message) == [ev EXCEPT !.message = message]

-----------------------------------------------------------------------------
(* logger.go *)

\* logger.go:179-188
buildDictFromMeta(metaPtr) == metaPtr.target.entries

\* logger.go:66-68 and 84-86
AttachMeta(ev, metaPtr) ==
    IF ~metaPtr.null THEN Dict(ev, buildDictFromMeta(metaPtr)) ELSE ev

\* Variant: the local emission ignores REMOTE_LOG_ONLY.
LocalWantedAlways(flag) == TRUE

\* logger.go:58
LocalWanted(flag) == flag = ""

\* Variant: the remote emission is skipped unless REMOTE_LOG_ONLY is set.
RemoteWantedOnlyWithFlag(l) == l.remoteLogger.present /\ env.REMOTE_LOG_ONLY # ""

\* logger.go:77
RemoteWanted(l) == l.remoteLogger.present

\* logger.go:59-63 and 78-82: the record-start operation for a level.
StartEvent(sink, lg, fns, err, level, gl) ==
    IF level = "Err"
    THEN LoggerErr(sink, lg, err, gl)
    ELSE NewEvent(sink, lg, fns[level].level, gl)

\* logger.go:58-72
LocalEvents(l, message, err, metaPtr, level, flag, gl) ==
    IF LocalWanted(flag)
    THEN <<Msg(AttachMeta(StartEvent("local", l.localLogger, l.localLoggerFns,
                                     err, level, gl), metaPtr), message)>>
    ELSE <<>>

\* logger.go:77-90
RemoteEvents(l, message, err, metaPtr, level, gl) ==
    IF RemoteWanted(l)
    THEN <<Msg(AttachMeta(StartEvent("remote", l.remoteLogger, l.remoteLoggerFns,
                                     err, level, gl), metaPtr), message)>>
    ELSE <<>>

\* Calling a nil function value panics (logger.go:62 and 81).
LocalPanics(l, level, flag) ==
    LocalWanted(flag) /\ level # "Err" /\ l.localLoggerFns[level].null

RemotePanics(l, level) ==
    RemoteWanted(l) /\ level # "Err" /\ l.remoteLoggerFns[level].null

\* logger.go:53-91
commonLog(id, message, err, metaPtr, level) ==
    LET l == loggers[id]
        flag == env.REMOTE_LOG_ONLY
        lp == LocalPanics(l, level, flag)
        rp == RemotePanics(l, level)
        local == IF lp THEN <<>>
                 ELSE LocalEvents(l, message, err, metaPtr, level, flag, gLevel)
        remote == IF lp \/ rp THEN <<>>
                  ELSE RemoteEvents(l, message, err, metaPtr, level, gLevel)
    IN  /\ ~panicked
        /\ l.built
        /\ panicked' = (lp \/ rp)
        /\ last' = [op |-> "log", id |-> id, level |-> level,
                    message |-> message, err |-> err,
                    meta |-> metaPtr.target, flag |-> flag,
                    environment |-> "", url |-> "", dialErr |-> NilErr,
                    events |-> local \o remote, console |-> <<>>,
                    dialed |-> FALSE]
        /\ UNCHANGED <<env, gLevel, loggers, args, resolved>>

\* logger.go:34-36
Debug(id, message, meta) == commonLog(id, message, NilErr, AddrOf(meta), "Debug")

\* logger.go:38-40
Info(id, message, meta) == commonLog(id, message, NilErr, AddrOf(meta), "Info")

\* logger.go:42-44
Warn(id, message, meta) == commonLog(id, message, NilErr, AddrOf(meta), "Warn")

\* logger.go:46-48
Error(id, message, err, meta) == commonLog(id, message, err, AddrOf(meta), "Err")

-----------------------------------------------------------------------------
(* ConfigureLogger *)

\* Variant: a development environment wins over LOG_LEVEL.
ResolveLogLevelEnvFirst(logLevelEnv, environment) ==
    IF environment = "development" THEN "debug"
    ELSE IF logLevelEnv \in DOMAIN validLogLevels THEN logLevelEnv ELSE "info"

\* logger.go:103-115
ResolveLogLevel(logLevelEnv, environment) ==
    IF logLevelEnv # ""
    THEN IF logLevelEnv \in DOMAIN validLogLevels THEN logLevelEnv ELSE "info"
    ELSE IF environment = "development" THEN "debug" ELSE "info"

\* logger.go:105-110: the fmt.Println of an unrecognised LOG_LEVEL.
LevelWarning(logLevelEnv) ==
    IF logLevelEnv # "" /\ logLevelEnv \notin DOMAIN validLogLevels
    THEN << <<"Invalid log level specified:", logLevelEnv>> >>
    ELSE <<>>

\* Variant: the process-wide level is set by the first configuration only.
SetGlobalLevelOnce(cur, logLevel) ==
    IF \E i \in LoggerIds : loggers[i].built THEN cur ELSE logLevel

\* logger.go:117
SetGlobalLevel(cur, logLevel) == logLevel

\* logger.go:120-125
BuildLocalLogger(appName, environment) ==
    [present |-> TRUE, app |-> appName,
     console |-> (environment = "development"),
     out |-> IF environment = "development" THEN "stderr" ELSE "stdout"]

\* logger.go:155-159
BuildRemoteLogger(appName, environment) ==
    [present |-> TRUE, app |-> appName,
     console |-> (environment = "development"),
     out |-> "syslog"]

\* logger.go:127
StartupTrace(lg, appName, environment, gl) ==
    Msg(NewEvent("local", lg, "debug", gl),
        <<"Setting up logger for %s in %s environment", appName, environment>>)

\* logger.go:133-137
LocalFns == [n \in FnNames |->
    [null |-> FALSE, sink |-> "local",
     level |-> CASE n = "Debug" -> "debug" [] n = "Info" -> "info"
                 [] n = "Warn" -> "warn"]]

\* Variant: the "Warn" entry of the remote table is never filled in.
RemoteFnsNoWarn == [n \in FnNames |->
    IF n = "Warn" THEN NilFn
    ELSE [null |-> FALSE, sink |-> "remote",
          level |-> IF n = "Debug" THEN "debug" ELSE "info"]]

\* logger.go:165-167
RemoteFns == [n \in FnNames |->
    [null |-> FALSE, sink |-> "remote",
     level |-> CASE n = "Debug" -> "debug" [] n = "Info" -> "info"
                 [] n = "Warn" -> "warn"]]

\* logger.go:130-143
CombinedLogger(localLogger) ==
    [built |-> TRUE,
     localLogger |-> localLogger,
     remoteLogger |-> NilLogger,
     localLoggerFns |-> LocalFns,
     remoteLoggerFns |-> [n \in FnNames |-> NilFn]]

\* Variant: the transport is opened whatever the address.
WithRemoteAnyURL(combined, appName, remoteLoggerURL, environment, dialErr) ==
    IF dialErr = NilErr
    THEN [combined EXCEPT !.remoteLogger = BuildRemoteLogger(appName, environment),
                          !.remoteLoggerFns = RemoteFns]
    ELSE combined

\* logger.go:145-171: the Logger after the remote set-up.
WithRemote(combined, appName, remoteLoggerURL, environment, dialErr) ==
    IF remoteLoggerURL # "" /\ dialErr = NilErr
    THEN [combined EXCEPT !.remoteLogger = BuildRemoteLogger(appName, environment),
                          !.remoteLoggerFns = RemoteFns]
    ELSE combined

\* Variant: a failed dial is not reported.
DialFailureSilent(lg, remoteLoggerURL, dialErr, gl) == <<>>

\* logger.go:168-170
DialFailure(lg, remoteLoggerURL, dialErr, gl) ==
    IF remoteLoggerURL # "" /\ dialErr # NilErr
    THEN <<Msg(LoggerErr("local", lg, dialErr, gl),
               <<"Failed to set up remote logger!">>)>>
    ELSE <<>>

\* logger.go:98-175.  dialErr is what syslog.Dial returns when it is called.
ConfigureLogger(id, appName, remoteLoggerURL, environment, dialErr) ==
    LET logLevel == ResolveLogLevel(env.LOG_LEVEL, environment)
        gl == SetGlobalLevel(gLevel, logLevel)
        localLogger == BuildLocalLogger(appName, environment)
    IN  /\ ~panicked
        /\ remoteLoggerURL = "" => dialErr = NilErr
        /\ gLevel' = gl
        /\ resolved' = logLevel
        /\ loggers' = [loggers EXCEPT ![id] =
               WithRemote(CombinedLogger(localLogger), appName,
                          remoteLoggerURL, environment, dialErr)]
        /\ args' = [args EXCEPT ![id] =
               [url |-> remoteLoggerURL,
                dialFailed |-> (remoteLoggerURL # "" /\ dialErr # NilErr),
                logLevel |-> logLevel]]
        /\ last' = [op |-> "configure", id |-> id, level |-> "",
                    message |-> <<>>, err |-> NilErr, meta |-> NilMap,
                    flag |-> env.REMOTE_LOG_ONLY,
                    environment |-> environment, url |-> remoteLoggerURL,
                    dialErr |-> dialErr,
                    events |-> <<StartupTrace(localLogger, appName, environment, gl)>>
                               \o DialFailure(localLogger, remoteLoggerURL, dialErr, gl),
                    console |-> LevelWarning(env.LOG_LEVEL),
                    dialed |-> (remoteLoggerURL # "")]
        /\ UNCHANGED <<env, panicked>>

\* os.Setenv by the host program.  The repository sets REMOTE_LOG_ONLY while it
\* runs (logger_test.go:38); LOG_LEVEL is whatever the process was started with.
Setenv(name, value) ==
    /\ ~panicked
    /\ env[name] # value
    /\ env' = [env EXCEPT ![name] = value]
    /\ last' = [NoOp EXCEPT !.op = "setenv"]
    /\ UNCHANGED <<gLevel, loggers, args, resolved, panicked>>

-----------------------------------------------------------------------------
Init ==
    /\ env \in [LOG_LEVEL : LogLevelValues, REMOTE_LOG_ONLY : RemoteLogOnlyValues]
    /\ gLevel = "debug"
    /\ loggers = [i \in LoggerIds |-> NoLogger]
    /\ args = [i \in LoggerIds |-> NoArgs]
    /\ resolved = "debug"
    /\ last = NoOp
    /\ panicked = FALSE

Next ==
    \/ \E id \in LoggerIds, a \in AppNames, u \in RemoteURLs,
          e \in Environments, d \in DialErrs :
            ConfigureLogger(id, a, u, e, d)
    \/ \E id \in LoggerIds, m \in Messages, meta \in Metas : Debug(id, m, meta)
    \/ \E id \in LoggerIds, m \in Messages, meta \in Metas : Info(id, m, meta)
    \/ \E id \in LoggerIds, m \in Messages, meta \in Metas : Warn(id, m, meta)
    \/ \E id \in LoggerIds, m \in Messages, err \in Errs, meta \in Metas :
            Error(id, m, err, meta)
    \/ \E v \in RemoteLogOnlyValues : Setenv("REMOTE_LOG_ONLY", v)

Spec == Init /\ [][Next]_vars

-----------------------------------------------------------------------------
(* Properties *)

IsLog == last.op = "log"
IsConfigure == last.op = "configure"

\* The records the last operation started on a sink, in program order.
OnSink(sink) == SelectSeq(last.events, LAMBDA ev : ev.sink = sink)

\* The records the last operation actually wrote.
Written == SelectSeq(last.events, LAMBDA ev : ev.enabled)

Passes(lvl, threshold) == validLogLevels[lvl] >= validLogLevels[threshold]

EnvDefault(environment) == IF environment = "development" THEN "debug" ELSE "info"

\* C1: on every sink that writes the record of a Debug/Info/Warn/Error call,
\* the record has a "meta" field exactly when the metadata map passed to the
\* call was not nil (an empty map still gives a field).
C1_MetaFieldIffMapGiven ==
    IsLog => \A i \in DOMAIN Written :
                 Written[i].hasMeta <=> ~last.meta.isNil

\* C2: a ConfigureLogger call under an unrecognised LOG_LEVEL prints a console
\* warning and resolves the environment-based default (debug for
\* "development", info otherwise).
C2_InvalidLevelFallsBackToEnvironment ==
    (IsConfigure /\ env.LOG_LEVEL # "" /\ env.LOG_LEVEL \notin LevelNames)
        => /\ Len(last.console) = 1
           /\ gLevel = EnvDefault(last.environment)

\* C3: the threshold ConfigureLogger resolves is LOG_LEVEL when that is one of
\* debug/info/warn/error, whatever the environment tag; with LOG_LEVEL unset
\* it is debug for "development" and info for every other tag.
C3_LevelPrecedence ==
    IsConfigure =>
        /\ env.LOG_LEVEL \in LevelNames => gLevel = env.LOG_LEVEL
        /\ env.LOG_LEVEL = "" => gLevel = EnvDefault(last.environment)

C3_Witness ==
    /\ IsConfigure
    /\ env.LOG_LEVEL = "error"
    /\ last.environment = "development"
    /\ gLevel = "error"

\* C4: a log call on a Logger with a remote sink starts exactly one remote
\* record whatever REMOTE_LOG_ONLY is, written when its level passes the
\* threshold; when REMOTE_LOG_ONLY is non-empty the call starts no local record.
C4_RemoteOnlyWhenFlagSet ==
    (IsLog /\ ~panicked /\ loggers[last.id].remoteLogger.present)
        => /\ Len(OnSink("remote")) = 1
           /\ OnSink("remote")[1].enabled
                 <=> Passes(OnSink("remote")[1].level, gLevel)
           /\ last.flag # "" => OnSink("local") = <<>>

C4_Witness ==
    /\ IsLog
    /\ loggers[last.id].remoteLogger.present
    /\ last.flag # ""
    /\ Len(Written) = 1
    /\ Written[1].sink = "remote"

\* C5: a Logger built with an empty remote address has no remote sink, its
\* configuration opened no transport, and no call on it starts a remote
\* record or opens a transport, whatever REMOTE_LOG_ONLY is.
C5_NoRemoteWithoutAddress ==
    /\ \A id \in LoggerIds :
          (loggers[id].built /\ args[id].url = "")
              => ~loggers[id].remoteLogger.present
    /\ ((IsLog \/ IsConfigure) /\ args[last.id].url = "")
          => OnSink("remote") = <<>> /\ ~last.dialed

C5_Witness ==
    /\ IsLog
    /\ args[last.id].url = ""
    /\ last.flag # ""
    /\ last.level = "Err"
    /\ last.events = <<>>

\* The local error records of the last operation.
LocalErrors ==
    SelectSeq(last.events, LAMBDA ev : ev.sink = "local" /\ ev.level = "error")

\* C6: a ConfigureLogger call whose dial fails writes exactly one local error
\* record ("Failed to set up remote logger!" with the dial error) and returns a
\* Logger without remote sink; no later call on that Logger starts a remote
\* record or dials again.
C6_DialFailureIsLocalOnly ==
    /\ (IsConfigure /\ last.url # "" /\ last.dialErr # NilErr)
          => /\ Len(LocalErrors) = 1
             /\ LocalErrors[1].enabled
             /\ LocalErrors[1].message = <<"Failed to set up remote logger!">>
             /\ LocalErrors[1].error = last.dialErr
             /\ OnSink("remote") = <<>>
    /\ \A id \in LoggerIds :
          args[id].dialFailed => ~loggers[id].remoteLogger.present
    /\ (IsLog /\ args[last.id].dialFailed)
          => OnSink("remote") = <<>> /\ ~last.dialed

C6_Witness ==
    /\ IsLog
    /\ args[last.id].dialFailed
    /\ last.flag = ""
    /\ Len(Written) = 1
    /\ Written[1].sink = "local"

\* C7: every record an Error call starts is an error-level record, and it is
\* written under each of the four thresholds, whether or not an error value
\* was passed.
C7_ErrorAlwaysErrorLevel ==
    (IsLog /\ last.level = "Err")
        => \A i \in DOMAIN last.events :
              last.events[i].level = "error" /\ last.events[i].enabled

\* C8: in every Logger, the three remote table entries are all nil when the
\* remote sink is absent and all callable when it is present, the three local
\* entries are callable, and no call ever invokes a nil entry.
C8_RemoteTableMatchesHandle ==
    /\ \A id \in LoggerIds : loggers[id].built =>
          /\ \A n \in FnNames : ~loggers[id].localLoggerFns[n].null
          /\ \A n \in FnNames :
                loggers[id].remoteLoggerFns[n].null
                    <=> ~loggers[id].remoteLogger.present
    /\ ~panicked

C8_Witness ==
    /\ IsLog
    /\ last.level = "Warn"
    /\ loggers[last.id].remoteLogger.present
    /\ Len(OnSink("remote")) = 1
    /\ ~panicked

\* C9: a log call starts a local record iff REMOTE_LOG_ONLY is empty when the
\* call is made and a remote record iff the Logger has a remote sink, the
\* local one first; it returns normally even when it starts none.
C9_IndependentEmissions ==
    IsLog =>
        /\ Len(OnSink("local")) = IF env.REMOTE_LOG_ONLY = "" THEN 1 ELSE 0
        /\ Len(OnSink("remote")) =
              IF loggers[last.id].remoteLogger.present THEN 1 ELSE 0
        /\ last.events = OnSink("local") \o OnSink("remote")
        /\ ~panicked

C9_Witness ==
    /\ IsLog
    /\ env.REMOTE_LOG_ONLY # ""
    /\ ~loggers[last.id].remoteLogger.present
    /\ last.events = <<>>
    /\ ~panicked

\* C10: the threshold is the one resolved by the most recent ConfigureLogger
\* call, and it filters the records of every Logger, whatever threshold was
\* resolved when that Logger was built.
C10_LatestThresholdFiltersAll ==
    /\ (\E id \in LoggerIds : loggers[id].built) => gLevel = resolved
    /\ IsLog => \A i \in DOMAIN last.events :
                   last.events[i].enabled
                       <=> Passes(last.events[i].level, resolved)

C10_Witness ==
    /\ IsLog
    /\ last.level = "Debug"
    /\ args[last.id].logLevel = "debug"
    /\ resolved = "info"
    /\ Len(last.events) = 1
    /\ ~last.events[1].enabled

=============================================================================
